---------------------------- MODULE Spec2Model ----------------------------
(***************************************************************************)
(* Model of the bundle-spec pipeline:                                      *)
(*   scripts/validate_spec.py      (validator and its grammar engine)      *)
(*   scripts/gen_uml_from_spec.py  (deterministic ids of the .uml model)   *)
(*                                                                         *)
(* Text that the program parses (atoms, triggers, actions, device ids,     *)
(* attribute names, values) is a sequence of one-character strings, so     *)
(* the regular expressions and the tokenizer work character by character.  *)
(* Text that is only compared or concatenated (state ids, type names) is   *)
(* a TLA+ string.                                                          *)
(***************************************************************************)
EXTENDS Integers, Sequences, FiniteSets, TLC

VARIABLES
    spec,           \* validate_spec.main: the loaded bundle (a dict)
    caps_root,      \* validate_spec.main: the loaded capability schema
    pc,             \* position of the pipeline
    ERRS,           \* validate_spec.ERRS
    dev_map,        \* validate_spec.main: device id -> device type
    caps_devices,   \* validate_spec.main: caps_root["devices"] (or {})
    state_ids,      \* validate_spec.main: set of state ids seen so far
    si,             \* validate_spec.main: number of states checked
    ti,             \* validate_spec.main: number of transitions checked
    exit_code,      \* validate_spec.main: sys.exit status (-1: still running)
    state_xmi_ids,  \* gen_uml_from_spec.main
    state_xml,      \* gen_uml_from_spec.main: emitted <subvertex> elements
    trans_xml,      \* gen_uml_from_spec.main: emitted <transition> elements
    stereo_xml,     \* gen_uml_from_spec.main: emitted MDSSED blocks
    expr,           \* argument of a stand-alone validate_trigger call
    frags,          \* the pieces expr was written from
    tokens,         \* validate_trigger: result of split_bool
    checked         \* validate_trigger: texts handed to validate_atom

vars == << spec, caps_root, pc, ERRS, dev_map, caps_devices, state_ids, si, ti,
           exit_code, state_xmi_ids, state_xml, trans_xml, stereo_xml,
           expr, frags, tokens, checked >>

(***************************************************************************)
(* Bounds of the model.                                                    *)
(***************************************************************************)
\* longest states[] of a bundle
MaxStates == 2
\* longest transitions[] of a bundle
MaxTransitions == 2
\* longest devices[] handed to a stand-alone validate_devices call
MaxDevices == 3
\* most pieces a stand-alone trigger expression is written from
MaxFrags == 4

(***************************************************************************)
(* Characters and strings.                                                 *)
(***************************************************************************)
\* the ASCII characters 32 .. 95, in code-point order
AsciiLow ==
    <<" ", "!", "\"", "#", "$", "%", "&", "'", "(", ")", "*", "+", ",", "-",
      ".", "/", "0", "1", "2", "3", "4", "5", "6", "7", "8", "9", ":", ";",
      "<", "=", ">", "?", "@", "A", "B", "C", "D", "E", "F", "G", "H", "I",
      "J", "K", "L", "M", "N", "O", "P", "Q", "R", "S", "T", "U", "V", "W",
      "X", "Y", "Z", "[", "\\", "]", "^", "_">>

\* the ASCII characters 97 .. 126, in code-point order
AsciiHigh ==
    <<"a", "b", "c", "d", "e", "f", "g", "h", "i", "j", "k", "l", "m", "n",
      "o", "p", "q", "r", "s", "t", "u", "v", "w", "x", "y", "z", "{", "|",
      "}", "~">>

OrdTable ==
    [c \in {AsciiLow[i] : i \in DOMAIN AsciiLow}
            \cup {AsciiHigh[i] : i \in DOMAIN AsciiHigh} |->
        IF \E i \in DOMAIN AsciiLow : AsciiLow[i] = c
        THEN 31 + (CHOOSE i \in DOMAIN AsciiLow : AsciiLow[i] = c)
        ELSE 96 + (CHOOSE i \in DOMAIN AsciiHigh : AsciiHigh[i] = c)]

\* ord(c)
Ord(c) == OrdTable[c]

\* F applied to v, with v evaluated once
With(v, F(_)) == F(v)

\* regex \s, and what str.strip() removes
IsSpace(c) == c \in {" ", "\t", "\n", "\r"}

\* regex [a-zA-Z_]
IsIdentStart(c) ==
    /\ ~IsSpace(c)
    /\ c \in DOMAIN OrdTable
    /\ (Ord(c) \in 65..90 \/ Ord(c) \in 97..122 \/ c = "_")

\* regex \w
IsWord(c) ==
    /\ ~IsSpace(c)
    /\ c \in DOMAIN OrdTable
    /\ (IsIdentStart(c) \/ Ord(c) \in 48..57)

\* s[i], or "" past either end
At(s, i) == IF i \in 1..Len(s) THEN s[i] ELSE ""

\* Python's order on str: code point by code point, a proper prefix first
StrLess(s, t) ==
    \E k \in 1..(Len(t)) :
        /\ \A j \in 1..(k - 1) : j <= Len(s) /\ s[j] = t[j]
        /\ Len(s) >= k - 1
        /\ (Len(s) = k - 1 \/ Ord(s[k]) < Ord(t[k]))

RECURSIVE sorted(_)
\* sorted(S) of a set of str
sorted(S) ==
    IF S = {} THEN <<>>
    ELSE With(CHOOSE x \in S : \A y \in S \ {x} : StrLess(x, y),
              LAMBDA m : <<m>> \o sorted(S \ {m}))

\* set(seq)
ToSet(seq) == {seq[i] : i \in DOMAIN seq}

\* the first position j >= i at which Stop holds, Len(s)+1 when there is none
ScanTo(s, i, Stop(_)) ==
    CHOOSE j \in i..(Len(s) + 1) :
        /\ (j = Len(s) + 1 \/ Stop(s[j]))
        /\ \A k \in i..(j - 1) : ~Stop(s[k])

NotSpace(c) == ~IsSpace(c)
NotWord(c) == ~IsWord(c)
IsQuote(c) == c = "\""

\* str.strip()
strip(s) ==
    With(ScanTo(s, 1, NotSpace), LAMBDA a :
        IF a > Len(s) THEN <<>>
        ELSE SubSeq(s, a, CHOOSE j \in a..Len(s) :
                            /\ ~IsSpace(s[j])
                            /\ \A k \in (j + 1)..Len(s) : IsSpace(s[k])))

(***************************************************************************)
(* The two regular expressions.  A failed match is [matched |-> FALSE].    *)
(***************************************************************************)
NoMatch == [matched |-> FALSE, groups |-> <<>>]

\* TRIG_ATOM_RE.match(s):
\*   ^\s*([a-zA-Z_]\w*)\.([a-zA-Z_]\w*)\s*(==|!=)\s*"([^"]+)"\s*$
\* p1 the device, p3 the attribute, p5 the operator, p6 and p7 the quotes
TRIG_ATOM_RE(s) ==
    With(ScanTo(s, 1, NotSpace), LAMBDA p1 :
    IF ~IsIdentStart(At(s, p1)) THEN NoMatch ELSE
    With(ScanTo(s, p1 + 1, NotWord), LAMBDA p2 :
    IF At(s, p2) # "." \/ ~IsIdentStart(At(s, p2 + 1)) THEN NoMatch ELSE
    With(ScanTo(s, p2 + 2, NotWord), LAMBDA p4 :
    With(ScanTo(s, p4, NotSpace), LAMBDA p5 :
    IF ~(At(s, p5) \in {"=", "!"} /\ At(s, p5 + 1) = "=") THEN NoMatch ELSE
    With(ScanTo(s, p5 + 2, NotSpace), LAMBDA p6 :
    IF At(s, p6) # "\"" THEN NoMatch ELSE
    With(ScanTo(s, p6 + 1, IsQuote), LAMBDA p7 :
    IF p7 > Len(s) \/ p7 = p6 + 1 THEN NoMatch ELSE
    IF ScanTo(s, p7 + 1, NotSpace) # Len(s) + 1 THEN NoMatch ELSE
        [matched |-> TRUE,
         groups  |-> << SubSeq(s, p1, p2 - 1), SubSeq(s, p2 + 1, p4 - 1),
                        SubSeq(s, p5, p5 + 1), SubSeq(s, p6 + 1, p7 - 1) >>]))))))

\* ACTION_RE.match(s):  ^\s*([a-zA-Z_]\w*)\.([a-zA-Z_]\w*)\(\)\s*$
ACTION_RE(s) ==
    With(ScanTo(s, 1, NotSpace), LAMBDA p1 :
    IF ~IsIdentStart(At(s, p1)) THEN NoMatch ELSE
    With(ScanTo(s, p1 + 1, NotWord), LAMBDA p2 :
    IF At(s, p2) # "." \/ ~IsIdentStart(At(s, p2 + 1)) THEN NoMatch ELSE
    With(ScanTo(s, p2 + 2, NotWord), LAMBDA p4 :
    IF ~(At(s, p4) = "(" /\ At(s, p4 + 1) = ")") THEN NoMatch ELSE
    IF ScanTo(s, p4 + 2, NotSpace) # Len(s) + 1 THEN NoMatch ELSE
        [matched |-> TRUE,
         groups  |-> << SubSeq(s, p1, p2 - 1), SubSeq(s, p2 + 1, p4 - 1) >>])))

(***************************************************************************)
(* The words of the schema and of the bundles, as character sequences.     *)
(***************************************************************************)
c_presenceSensor == <<"p", "r", "e", "s", "e", "n", "c", "e", "S", "e", "n", "s", "o", "r">>
c_motionSensor   == <<"m", "o", "t", "i", "o", "n", "S", "e", "n", "s", "o", "r">>
c_switch         == <<"s", "w", "i", "t", "c", "h">>
c_switch1        == <<"s", "w", "i", "t", "c", "h", "1">>
c_power          == <<"p", "o", "w", "e", "r">>
c_level          == <<"l", "e", "v", "e", "l">>
c_motion         == <<"m", "o", "t", "i", "o", "n">>
c_presence       == <<"p", "r", "e", "s", "e", "n", "c", "e">>
c_on             == <<"o", "n">>
c_off            == <<"o", "f", "f">>
c_maybe          == <<"m", "a", "y", "b", "e">>
c_active         == <<"a", "c", "t", "i", "v", "e">>
c_inactive       == <<"i", "n", "a", "c", "t", "i", "v", "e">>
c_present        == <<"p", "r", "e", "s", "e", "n", "t">>
c_notpresent     == <<"n", "o", "t", "p", "r", "e", "s", "e", "n", "t">>
c_toggle         == <<"t", "o", "g", "g", "l", "e">>
c_fly            == <<"f", "l", "y">>
c_eq             == <<"=", "=">>
c_ne             == <<"!", "=">>
c_and            == <<"&", "&">>
c_or             == <<"|", "|">>
c_xor            == <<"^", "^">>

(***************************************************************************)
(* Python values.                                                          *)
(***************************************************************************)
\* None (no dict of the model holds this string)
None == "<None>"

\* d.get(k, default)
Get(d, k, default) == IF k \in DOMAIN d THEN d[k] ELSE default

\* an empty dict
EmptyDict == <<>>

\* d[k] = v on a copy of d
DictSet(d, k, v) == (k :> v) @@ d

(***************************************************************************)
(* Diagnostics.  The text of an f-string is the sequence of its parts: a   *)
(* literal piece, or the value placed in a {...} field.  "at" is not part  *)
(* of the message: it records which check of which element of the bundle   *)
(* was running when err was called, <<group, element, invariant>> with     *)
(* group 0 the top-level keys, 1 devices, 2 states, 3 transitions.         *)
(***************************************************************************)
Lit(s)  == [t |-> "lit",  v |-> <<s>>]
Str(cs) == [t |-> "str",  v |-> cs]
Val(x)  == [t |-> "val",  v |-> <<x>>]
List(l) == [t |-> "list", v |-> l]

\* a variant of err that prepends: ERRS.insert(0, msg)
err_prepend(E, at, text) == <<[at |-> at, text |-> text]>> \o E

\* err(msg): ERRS.append(msg)
err(E, at, text) == Append(E, [at |-> at, text |-> text])

(***************************************************************************)
(* validate_devices                                                        *)
(***************************************************************************)
\* the ids the v1 pipeline requires, validate_devices's closing loop without
\* its last element
RequiredDevices_short == << c_presenceSensor, c_motionSensor >>

\* ("presenceSensor", "motionSensor", "switch")
RequiredDevices == << c_presenceSensor, c_motionSensor, c_switch >>

\* the body of "for d in spec['devices']" for the k-th device; acc is
\* [ERRS, dev_map]; this variant keeps the first type recorded for an id
device_step_first_wins(acc, d, k, capsd) ==
    IF ~({"id", "type", "attributes"} \subseteq DOMAIN d)
    THEN [acc EXCEPT !.ERRS =
            err(@, <<1, k, 0>>, <<Lit("Device missing keys: "), Val(d)>>)]
    ELSE
    LET did   == d["id"]
        dtype == d["type"]
    IN  IF dtype \notin DOMAIN capsd
        THEN [acc EXCEPT !.ERRS =
                err(@, <<1, k, 0>>, <<Lit("Unknown device type: "), Val(dtype)>>)]
        ELSE
        LET E1 == IF did \in DOMAIN acc.dev_map
                  THEN err(acc.ERRS, <<1, k, 0>>,
                           <<Lit("Duplicate device id: "), Str(did)>>)
                  ELSE acc.ERRS
            dm == IF did \in DOMAIN acc.dev_map THEN acc.dev_map
                  ELSE DictSet(acc.dev_map, did, dtype)
            want_attrs == DOMAIN capsd[dtype]["attributes"]
            got_attrs  == ToSet(Get(d, "attributes", <<>>))
            E2 == IF ~(got_attrs \subseteq want_attrs)
                  THEN err(E1, <<1, k, 0>>,
                           <<Lit("Device "), Str(did),
                             Lit(" attributes invalid: "),
                             List(sorted(got_attrs \ want_attrs))>>)
                  ELSE E1
        IN  [ERRS |-> E2, dev_map |-> dm]

\* the body of "for d in spec['devices']" for the k-th device; acc is
\* [ERRS, dev_map]
device_step(acc, d, k, capsd) ==
    IF ~({"id", "type", "attributes"} \subseteq DOMAIN d)
    THEN [acc EXCEPT !.ERRS =
            err(@, <<1, k, 0>>, <<Lit("Device missing keys: "), Val(d)>>)]
    ELSE
    LET did   == d["id"]
        dtype == d["type"]
    IN  IF dtype \notin DOMAIN capsd
        THEN [acc EXCEPT !.ERRS =
                err(@, <<1, k, 0>>, <<Lit("Unknown device type: "), Val(dtype)>>)]
        ELSE
        LET E1 == IF did \in DOMAIN acc.dev_map
                  THEN err(acc.ERRS, <<1, k, 0>>,
                           <<Lit("Duplicate device id: "), Str(did)>>)
                  ELSE acc.ERRS
            dm == DictSet(acc.dev_map, did, dtype)
            want_attrs == DOMAIN capsd[dtype]["attributes"]
            got_attrs  == ToSet(Get(d, "attributes", <<>>))
            E2 == IF ~(got_attrs \subseteq want_attrs)
                  THEN err(E1, <<1, k, 0>>,
                           <<Lit("Device "), Str(did),
                             Lit(" attributes invalid: "),
                             List(sorted(got_attrs \ want_attrs))>>)
                  ELSE E1
        IN  [ERRS |-> E2, dev_map |-> dm]

RECURSIVE devices_loop(_, _, _, _)
\* "for d in spec['devices']" from the k-th device on
devices_loop(acc, devices, k, capsd) ==
    IF k > Len(devices) THEN acc
    ELSE devices_loop(device_step(acc, devices[k], k, capsd), devices, k + 1, capsd)

RECURSIVE required_loop(_, _, _, _, _)
\* "for must in (...)" from the k-th required id on
required_loop(E, dm, must, k, n) ==
    IF k > Len(must) THEN E
    ELSE required_loop(
            IF must[k] \notin DOMAIN dm
            THEN err(E, <<1, n + 1, 0>>,
                     <<Lit("Required device missing: "), Str(must[k])>>)
            ELSE E,
            dm, must, k + 1, n)

\* validate_devices(spec, caps_root), called with ERRS = E; the result is
\* [ERRS, dev_map, caps_devices]
validate_devices(E, sp, caps) ==
    IF "devices" \notin DOMAIN sp
    THEN [ERRS |-> err(E, <<1, 0, 0>>, <<Lit("Missing devices[]")>>),
          dev_map |-> EmptyDict, caps_devices |-> EmptyDict]
    ELSE
    With(Get(caps, "devices", EmptyDict), LAMBDA capsd :
    With(devices_loop([ERRS |-> E, dev_map |-> EmptyDict],
                      sp["devices"], 1, capsd), LAMBDA acc :
        [ERRS |-> required_loop(acc.ERRS, acc.dev_map, RequiredDevices, 1,
                                Len(sp["devices"])),
         dev_map |-> acc.dev_map,
         caps_devices |-> capsd]))

(***************************************************************************)
(* split_bool                                                              *)
(***************************************************************************)
\* expr.startswith("&&", i) or expr.startswith("||", i)   (i counts from 1)
StartsWithOp(e, i) ==
    \/ (At(e, i) = "&" /\ At(e, i + 1) = "&")
    \/ (At(e, i) = "|" /\ At(e, i + 1) = "|")

\* the first position j >= i at which the scan of split_bool meets a
\* connective, Len(e)+1 when it meets none: the characters from i to j-1 are
\* the ones the loop appends to buf one by one
NextOp(e, i) ==
    CHOOSE j \in i..(Len(e) + 1) :
        /\ (j = Len(e) + 1 \/ StartsWithOp(e, j))
        /\ \A k \in i..(j - 1) : ~StartsWithOp(e, k)

RECURSIVE split_loop(_, _, _)
\* the while loop of split_bool from position i on, buf being empty there;
\* the result is [tokens, buf]
split_loop(e, i, toks) ==
    With(NextOp(e, i), LAMBDA j :
        IF j > Len(e) THEN [tokens |-> toks, buf |-> SubSeq(e, i, Len(e))]
        ELSE split_loop(e, j + 2,
                        toks \o <<strip(SubSeq(e, i, j - 1)), SubSeq(e, j, j + 1)>>))

\* a variant of split_bool: the closing "if buf.strip()" is dropped and the
\* trailing buffer is always appended
split_bool_always_flush(e, bops) ==
    With(split_loop(e, 1, <<>>), LAMBDA r :
        Append(r.tokens, strip(r.buf)))

\* split_bool(expr, bool_ops); bool_ops is not used by the function
split_bool(e, bops) ==
    With(split_loop(e, 1, <<>>), LAMBDA r :
        IF strip(r.buf) # <<>> THEN Append(r.tokens, strip(r.buf))
        ELSE r.tokens)

(***************************************************************************)
(* validate_atom, validate_trigger, validate_action                        *)
(***************************************************************************)
\* validate_atom(atom, dev_map, caps_devices, ops), called with ERRS = E
validate_atom(E, at, atom, dm, capsd, ops) ==
    With(TRIG_ATOM_RE(atom), LAMBDA m :
        IF ~m.matched
        THEN err(E, at, <<Lit("Bad trigger atom: "), Str(atom)>>)
        ELSE
        LET dev  == m.groups[1]
            attr == m.groups[2]
            op   == m.groups[3]
            val  == m.groups[4]
        IN  IF dev \notin DOMAIN dm
            THEN err(E, at, <<Lit("Unknown device in trigger: "), Str(dev)>>)
            ELSE
            LET dtype == dm[dev]
            IN  IF attr \notin DOMAIN capsd[dtype]["attributes"]
                THEN err(E, at, <<Lit("Unknown attribute "), Str(dev),
                                  Lit("."), Str(attr)>>)
                ELSE
                LET E1 == IF op \notin ops
                          THEN err(E, at, <<Lit("Invalid operator "), Str(op),
                                            Lit(" in "), Str(atom)>>)
                          ELSE E
                    allowed_vals == ToSet(capsd[dtype]["attributes"][attr])
                IN  IF val \notin allowed_vals
                    THEN err(E1, at, <<Lit("Invalid value "), Str(val),
                                       Lit(" for "), Str(dev), Lit("."),
                                       Str(attr), Lit("; allowed="),
                                       List(sorted(allowed_vals))>>)
                    ELSE E1)

RECURSIVE walk(_, _, _, _, _, _, _, _)
\* "for tok in tokens" of validate_trigger from the k-th token on; acc is
\* [ERRS, expect_atom, checked], checked the texts handed to validate_atom
walk(acc, at, toks, k, dm, capsd, bops, ops) ==
    IF k > Len(toks) THEN acc
    ELSE walk(
            IF acc.expect_atom
            THEN [ERRS |-> validate_atom(acc.ERRS, at, toks[k], dm, capsd, ops),
                  expect_atom |-> FALSE,
                  checked |-> Append(acc.checked, toks[k])]
            ELSE [ERRS |-> IF toks[k] \notin ToSet(bops)
                           THEN err(acc.ERRS, at,
                                    <<Lit("Expected boolean op between atoms, got: "),
                                      Str(toks[k])>>)
                           ELSE acc.ERRS,
                  expect_atom |-> TRUE,
                  checked |-> acc.checked],
            at, toks, k + 1, dm, capsd, bops, ops)

\* validate_trigger(expr, dev_map, caps_devices, bool_ops, ops), called with
\* ERRS = E; the result is [ERRS, tokens, checked]
trigger_run(E, at, e, dm, capsd, bops, ops) ==
    With(split_bool(e, bops), LAMBDA toks :
    With(walk([ERRS |-> E, expect_atom |-> TRUE, checked |-> <<>>],
              at, toks, 1, dm, capsd, bops, ops), LAMBDA r :
        [ERRS    |-> IF toks # <<>> /\ r.expect_atom
                     THEN err(r.ERRS, at,
                              <<Lit("Trigger expression ends with operator")>>)
                     ELSE r.ERRS,
         tokens  |-> toks,
         checked |-> r.checked]))

\* validate_trigger: ERRS after the call
validate_trigger(E, at, e, dm, capsd, bops, ops) ==
    trigger_run(E, at, e, dm, capsd, bops, ops).ERRS

\* validate_action(act, dev_map, caps_devices), called with ERRS = E
validate_action(E, at, act, dm, capsd) ==
    With(ACTION_RE(act), LAMBDA m :
        IF ~m.matched
        THEN err(E, at, <<Lit("Bad action syntax: "), Str(act)>>)
        ELSE
        LET dev == m.groups[1]
            cmd == m.groups[2]
        IN  IF dev \notin DOMAIN dm
            THEN err(E, at, <<Lit("Unknown device in action: "), Str(dev)>>)
            ELSE
            LET dtype   == dm[dev]
                allowed == ToSet(capsd[dtype]["actions"])
            IN  IF cmd \notin allowed
                THEN err(E, at, <<Lit("Command "), Str(cmd),
                                  Lit(" not allowed for "), Str(dev),
                                  Lit(" (type "), Val(dtype), Lit("); allowed="),
                                  List(sorted(allowed))>>)
                ELSE E)

(***************************************************************************)
(* validate_spec.main: the checks of one state and of one transition       *)
(***************************************************************************)
\* the body of "for iv in invs" for the k-th invariant of the n-th state;
\* the result is [ERRS, raised]: raised when line 279 looks up an attribute
\* the type does not have (KeyError)
invariant_step(E, n, k, sid, iv, dm, capsd, ops) ==
    With(TRIG_ATOM_RE(iv), LAMBDA m :
    With(<<2, n, k>>, LAMBDA at :
        IF ~m.matched
        THEN [ERRS |-> err(E, at, <<Lit("Bad invariant atom in state "),
                                    Val(sid), Lit(": "), Str(iv)>>),
              raised |-> FALSE]
        ELSE
        LET dev  == m.groups[1]
            attr == m.groups[2]
            op   == m.groups[3]
            val  == m.groups[4]
        IN  IF dev \notin DOMAIN dm
            THEN [ERRS |-> err(E, at, <<Lit("Unknown device in invariant: "),
                                        Str(dev)>>),
                  raised |-> FALSE]
            ELSE
            LET dtype == dm[dev]
                attrs == capsd[dtype]["attributes"]
                E1 == IF attr \notin DOMAIN attrs
                      THEN err(E, at, <<Lit("Unknown attribute "), Str(dev),
                                        Lit("."), Str(attr),
                                        Lit(" in invariant")>>)
                      ELSE E
                E2 == IF op \notin ops
                      THEN err(E1, at, <<Lit("Invalid operator "), Str(op),
                                         Lit(" in invariant")>>)
                      ELSE E1
            IN  IF attr \notin DOMAIN attrs
                THEN [ERRS |-> E2, raised |-> TRUE]
                ELSE IF val \notin ToSet(attrs[attr])
                     THEN [ERRS |-> err(E2, at,
                                        <<Lit("Invalid value "), Str(val),
                                          Lit(" for "), Str(dev), Lit("."),
                                          Str(attr), Lit(" in invariant")>>),
                           raised |-> FALSE]
                     ELSE [ERRS |-> E2, raised |-> FALSE]))

RECURSIVE invariants_loop(_, _, _, _, _, _, _, _)
\* "for iv in invs" from the k-th invariant on; acc is [ERRS, raised]
invariants_loop(acc, n, k, sid, invs, dm, capsd, ops) ==
    IF k > Len(invs) \/ acc.raised THEN acc
    ELSE invariants_loop(
            invariant_step(acc.ERRS, n, k, sid, invs[k], dm, capsd, ops),
            n, k + 1, sid, invs, dm, capsd, ops)

\* the body of "for st in states" for the n-th state; the result is
\* [ERRS, state_ids, raised].  invariants, when present, is a list.
state_step(E, ids, n, st, dm, capsd, ops) ==
    IF "id" \notin DOMAIN st
    THEN [ERRS |-> err(E, <<2, n, 0>>, <<Lit("State missing id: "), Val(st)>>),
          state_ids |-> ids, raised |-> FALSE]
    ELSE
    LET sid == st["id"]
        E1  == IF sid \in ids
               THEN err(E, <<2, n, 0>>, <<Lit("Duplicate state id: "), Val(sid)>>)
               ELSE E
    IN  With(invariants_loop([ERRS |-> E1, raised |-> FALSE], n, 1, sid,
                             Get(st, "invariants", <<>>), dm, capsd, ops),
             LAMBDA r : [ERRS |-> r.ERRS, state_ids |-> ids \cup {sid},
                         raised |-> r.raised])

RECURSIVE missing_keys(_, _, _, _, _)
\* "for k in ('source', 'target', 'trigger', 'action')" from the j-th key on
missing_keys(E, i, tr, keys, j) ==
    IF j > Len(keys) THEN E
    ELSE missing_keys(
            IF keys[j] \notin DOMAIN tr
            THEN err(E, <<3, i, 0>>, <<Lit("Transition "), Val(i),
                                       Lit(" missing "), Val(keys[j])>>)
            ELSE E,
            i, tr, keys, j + 1)

\* the body of "for i, tr in enumerate(transitions, start=1)"
transition_step(E, ids, i, tr, dm, capsd, bops, ops) ==
    LET at  == <<3, i, 0>>
        E0  == missing_keys(E, i, tr, <<"source", "target", "trigger", "action">>, 1)
        src == Get(tr, "source", None)
        tgt == Get(tr, "target", None)
        E1  == IF src \notin ids
               THEN err(E0, at, <<Lit("Transition "), Val(i),
                                  Lit(" unknown source: "), Val(src)>>)
               ELSE E0
        E2  == IF tgt \notin ids
               THEN err(E1, at, <<Lit("Transition "), Val(i),
                                  Lit(" unknown target: "), Val(tgt)>>)
               ELSE E1
        E3  == validate_trigger(E2, at, Get(tr, "trigger", <<>>), dm, capsd, bops, ops)
    IN  validate_action(E3, at, Get(tr, "action", <<>>), dm, capsd)

RECURSIVE top_level_keys(_, _, _, _)
\* "for k in ('bundle_name', 'devices', 'states', 'transitions', 'notes')"
top_level_keys(E, sp, keys, j) ==
    IF j > Len(keys) THEN E
    ELSE top_level_keys(
            IF keys[j] \notin DOMAIN sp
            THEN err(E, <<0, j, 0>>, <<Lit("Missing key: "), Val(keys[j])>>)
            ELSE E,
            sp, keys, j + 1)

\* ops = set(caps_root.get("ops", []))
main_ops(caps) == ToSet(Get(caps, "ops", <<>>))

\* bool_ops = caps_root.get("bool_ops", ["&&", "||"])
main_bool_ops(caps) == Get(caps, "bool_ops", <<c_and, c_or>>)

\* spec.get(key) when it is a non-empty list, else the empty list: the
\* "if isinstance(..., list)" loops of main run over it
ListOf(sp, key) == Get(sp, key, <<>>)

\* where main goes once the states loop is over
AfterStates(sp) == IF ListOf(sp, "transitions") # <<>> THEN "transitions" ELSE "report"

\* where main goes once validate_devices has returned
AfterDevices(sp) == IF ListOf(sp, "states") # <<>> THEN "states" ELSE AfterStates(sp)

(***************************************************************************)
(* gen_uml_from_spec.py                                                    *)
(***************************************************************************)
RECURSIVE h(_)
\* h(x): html.escape(x, quote=True)
h(x) ==
    IF x = <<>> THEN <<>>
    ELSE (CASE x[1] = "&"  -> <<"&", "a", "m", "p", ";">>
            [] x[1] = "<"  -> <<"&", "l", "t", ";">>
            [] x[1] = ">"  -> <<"&", "g", "t", ";">>
            [] x[1] = "\"" -> <<"&", "q", "u", "o", "t", ";">>
            [] x[1] = "'"  -> <<"&", "#", "x", "2", "7", ";">>
            [] OTHER       -> <<x[1]>>) \o h(Tail(x))

\* presenceSensor.presence
PresenceAttr == c_presenceSensor \o <<".">> \o c_presence

\* "notpresent", with its quotes
QuotedNotpresent ==
    <<"\"", "n", "o", "t", "p", "r", "e", "s", "e", "n", "t", "\"">>

\* "not present", with its quotes
QuotedNotPresent ==
    <<"\"", "n", "o", "t", " ", "p", "r", "e", "s", "e", "n", "t", "\"">>

\* e[i .. i+Len(lit)-1] = lit
HasAt(e, i, lit) ==
    /\ i + Len(lit) - 1 <= Len(e)
    /\ SubSeq(e, i, i + Len(lit) - 1) = lit

RECURSIVE sub_notpresent(_, _, _, _)
\* re.sub of (presenceSensor\.presence\s*OP\s*)"notpresent" by \1"not present"
\* from position i on, out the text produced so far
sub_notpresent(e, i, op, out) ==
    IF i > Len(e) THEN out
    ELSE
    LET j == IF HasAt(e, i, PresenceAttr)
             THEN ScanTo(e, i + Len(PresenceAttr), NotSpace) ELSE 0
        k == IF j > 0 /\ HasAt(e, j, op)
             THEN ScanTo(e, j + 2, NotSpace) ELSE 0
    IN  IF k > 0 /\ HasAt(e, k, QuotedNotpresent)
        THEN sub_notpresent(e, k + Len(QuotedNotpresent), op,
                            out \o SubSeq(e, i, k - 1) \o QuotedNotPresent)
        ELSE sub_notpresent(e, i + 1, op, Append(out, e[i]))

\* normalize_expr(expr)
normalize_expr(e) ==
    sub_notpresent(sub_notpresent(e, 1, <<"=", "=">>, <<>>), 1, <<"!", "=">>, <<>>)

\* state_xmi_ids = {s["id"]: f's_{s["id"]}' for s in states}
make_state_xmi_ids(states) ==
    [sid \in {states[k]["id"] : k \in DOMAIN states} |-> "s_" \o sid]

\* make_state_nodes(states, state_xmi_ids): the xmi:type and xmi:id of each
\* <subvertex>
make_state_nodes(states, ids) ==
    <<[type |-> "uml:Pseudostate", id |-> "init_1"]>>
    \o [k \in 1..Len(states) |->
            [type |-> "uml:State", id |-> ids[states[k]["id"]]]]
    \o <<[type |-> "uml:FinalState", id |-> "final_1"]>>

\* a variant of make_transitions: enumerate(transitions) without start=1
make_transitions_from_zero(states, transitions, ids) ==
    IF states = <<>> THEN [raised |-> TRUE, out |-> <<>>]
    ELSE [raised |-> FALSE,
          out |-> <<[id |-> "t_init", source |-> "init_1",
                     target |-> ids[states[1]["id"]]]>>
                  \o [i \in 1..Len(transitions) |->
                        [id     |-> "t_" \o ToString(i - 1),
                         source |-> ids[transitions[i]["source"]],
                         target |-> ids[transitions[i]["target"]]]]]

\* make_transitions(states, transitions, state_xmi_ids): the xmi:id, source
\* and target of each <transition>; raised when states[0] does not exist
\* (IndexError)
make_transitions(states, transitions, ids) ==
    IF states = <<>> THEN [raised |-> TRUE, out |-> <<>>]
    ELSE [raised |-> FALSE,
          out |-> <<[id |-> "t_init", source |-> "init_1",
                     target |-> ids[states[1]["id"]]]>>
                  \o [i \in 1..Len(transitions) |->
                        [id     |-> "t_" \o ToString(i),
                         source |-> ids[transitions[i]["source"]],
                         target |-> ids[transitions[i]["target"]]]]]

\* make_stereotypes(states, transitions, state_xmi_ids): one MDSSED:states
\* block per state, then an MDSSED:triggers and an MDSSED:actions block per
\* transition; base is base_State or base_Transition
make_stereotypes(states, transitions, ids) ==
    [k \in 1..Len(states) |->
        [tag      |-> "MDSSED:states",
         id       |-> "stinv_" \o ToString(k),
         base     |-> ids[states[k]["id"]],
         children |-> LET invs == Get(states[k], "invariants", <<>>)
                      IN  [j \in 1..Len(invs) |-> h(normalize_expr(invs[j]))]]]
    \o [n \in 1..(2 * Len(transitions)) |->
        LET i == (n + 1) \div 2
        IN  IF n % 2 = 1
            THEN [tag      |-> "MDSSED:triggers",
                  id       |-> "trig_" \o ToString(i),
                  base     |-> "t_" \o ToString(i),
                  children |-> <<h(normalize_expr(transitions[i]["trigger"]))>>]
            ELSE [tag      |-> "MDSSED:actions",
                  id       |-> "act_" \o ToString(i),
                  base     |-> "t_" \o ToString(i),
                  children |-> <<h(transitions[i]["action"])>>]]

(***************************************************************************)
(* The inputs: the capability schema and the bundles.                      *)
(***************************************************************************)
\* the text  dev.attr op "val"
AtomText(dev, attr, op, val) ==
    dev \o <<".">> \o attr \o <<" ">> \o op \o <<" ", "\"">> \o val \o <<"\"">>

\* the text  dev.cmd()
ActionText(dev, cmd) == dev \o <<".">> \o cmd \o <<"(", ")">>

\* caps.json: type switch as in the spec's scenarios, and the two sensor types
Caps ==
    [ops      |-> <<c_eq, c_ne>>,
     bool_ops |-> <<c_and, c_or>>,
     devices  |->
        (   "switch" :> [attributes |-> (c_power :> <<c_on, c_off>>),
                         actions    |-> <<c_toggle>>]
         @@ "presenceSensor" :>
                        [attributes |-> (c_presence :> <<c_present, c_notpresent>>),
                         actions    |-> <<>>]
         @@ "motionSensor" :>
                        [attributes |-> (c_motion :> <<c_active, c_inactive>>),
                         actions    |-> <<>>])]

d_switch1 == [id |-> c_switch1, type |-> "switch", attributes |-> <<c_power>>]

\* the three devices the v1 pipeline requires, declared with their own types
BaselineDevices ==
    << [id |-> c_presenceSensor, type |-> "presenceSensor",
        attributes |-> <<c_presence>>],
       [id |-> c_motionSensor, type |-> "motionSensor",
        attributes |-> <<c_motion>>],
       [id |-> c_switch, type |-> "switch",
        attributes |-> <<c_power>>] >>

\* devices[] of the bundles
DeviceLists == { <<>>, <<d_switch1>>, BaselineDevices \o <<d_switch1>> }

st_Idle == [id |-> "Idle", invariants |-> <<AtomText(c_switch1, c_power, c_eq, c_off)>>]
st_On   == [id |-> "On",   invariants |-> <<AtomText(c_switch1, c_power, c_eq, c_on)>>]
\* a state without invariants, named like the initial pseudostate
st_init == [id |-> "init"]
\* an invariant on an attribute the type switch does not have
st_1    == [id |-> "1", invariants |-> <<AtomText(c_switch1, c_level, c_eq, c_on)>>]
\* a malformed invariant, then one with a value outside the allowed set
st_Two  == [id |-> "Two",
            invariants |-> << <<"o", "n">>,
                              AtomText(c_switch1, c_power, c_eq, c_maybe) >>]

StatePool == { st_Idle, st_On, st_init, st_1, st_Two }

tr_A == [source |-> "Idle", target |-> "On",
         trigger |-> AtomText(c_switch1, c_power, c_eq, c_off),
         action  |-> ActionText(c_switch1, c_toggle)]
\* the trigger of the spec's scenario B
tr_B == [source |-> "On", target |-> "Idle",
         trigger |-> AtomText(c_switch1, c_power, c_eq, c_maybe),
         action  |-> ActionText(c_switch1, c_toggle)]
\* no action key, an undeclared target, a trigger ending in a connective
tr_C == [source |-> "Idle", target |-> "Nope",
         trigger |-> AtomText(c_switch1, c_power, c_ne, c_on) \o <<" ">> \o c_or]

TransitionPool == { tr_A, tr_B, tr_C }

\* the sequences over S of length at most n
SeqsUpTo(S, n) == UNION { [1..k -> S] : k \in 0..n }

\* the bundle of the spec's scenario A
ScenarioA ==
    [bundle_name |-> "A", devices |-> <<d_switch1>>,
     states |-> <<st_Idle, st_On>>, transitions |-> <<tr_A>>, notes |-> ""]

\* a bundle without its devices and notes sections
BundleNoDevices ==
    [bundle_name |-> "A", states |-> <<st_Idle>>, transitions |-> <<>>]

Bundles ==
    { [bundle_name |-> "A", devices |-> dl, states |-> sl,
       transitions |-> tl, notes |-> ""] :
        dl \in DeviceLists,
        sl \in SeqsUpTo(StatePool, MaxStates),
        tl \in SeqsUpTo(TransitionPool, MaxTransitions) }
    \cup { BundleNoDevices }

(***************************************************************************)
(* The pipeline: validate_spec.main, then (enforced by the caller, on exit *)
(* status 0 only) gen_uml_from_spec.main on the same bundle.               *)
(***************************************************************************)
NoCall == expr = <<>> /\ frags = <<>> /\ tokens = <<>> /\ checked = <<>>

NoGen ==
    /\ state_xmi_ids = EmptyDict
    /\ state_xml = <<>>
    /\ trans_xml = <<>>
    /\ stereo_xml = <<>>

Init ==
    /\ spec \in Bundles
    /\ caps_root = Caps
    /\ pc = "keys"
    /\ ERRS = <<>>
    /\ dev_map = EmptyDict
    /\ caps_devices = EmptyDict
    /\ state_ids = {}
    /\ si = 0
    /\ ti = 0
    /\ exit_code = -1
    /\ NoGen
    /\ NoCall

gen_vars == << state_xmi_ids, state_xml, trans_xml, stereo_xml >>
call_vars == << expr, frags, tokens, checked >>

\* main, lines 232-235
CheckTopLevelKeys ==
    /\ pc = "keys"
    /\ ERRS' = top_level_keys(ERRS, spec,
                 <<"bundle_name", "devices", "states", "transitions", "notes">>, 1)
    /\ pc' = "devices"
    /\ UNCHANGED << spec, caps_root, dev_map, caps_devices, state_ids, si, ti,
                    exit_code, gen_vars, call_vars >>

\* main, line 238
ValidateDevices ==
    /\ pc = "devices"
    /\ \E r \in {validate_devices(ERRS, spec, caps_root)} :
           /\ ERRS' = r.ERRS
           /\ dev_map' = r.dev_map
           /\ caps_devices' = r.caps_devices
    /\ pc' = AfterDevices(spec)
    /\ UNCHANGED << spec, caps_root, state_ids, si, ti, exit_code, gen_vars,
                    call_vars >>

\* main, lines 244-280: one iteration of "for st in states"; an uncaught
\* KeyError ends the process with a traceback and status 1
CheckState ==
    /\ pc = "states"
    /\ si < Len(ListOf(spec, "states"))
    /\ \E r \in {state_step(ERRS, state_ids, si + 1, spec["states"][si + 1],
                            dev_map, caps_devices, main_ops(caps_root))} :
           /\ ERRS' = r.ERRS
           /\ state_ids' = r.state_ids
           /\ pc' = IF r.raised THEN "raised"
                    ELSE IF si + 1 = Len(spec["states"]) THEN AfterStates(spec)
                    ELSE "states"
           /\ exit_code' = IF r.raised THEN 1 ELSE exit_code
    /\ si' = si + 1
    /\ UNCHANGED << spec, caps_root, dev_map, caps_devices, ti, gen_vars,
                    call_vars >>

\* main, lines 285-309: one iteration of "for i, tr in enumerate(transitions)"
CheckTransition ==
    /\ pc = "transitions"
    /\ ti < Len(ListOf(spec, "transitions"))
    /\ ERRS' = transition_step(ERRS, state_ids, ti + 1,
                               spec["transitions"][ti + 1], dev_map,
                               caps_devices, main_bool_ops(caps_root),
                               main_ops(caps_root))
    /\ ti' = ti + 1
    /\ pc' = IF ti + 1 = Len(spec["transitions"]) THEN "report" ELSE "transitions"
    /\ UNCHANGED << spec, caps_root, dev_map, caps_devices, state_ids, si,
                    exit_code, gen_vars, call_vars >>

\* main, lines 312-315: the diagnostics are printed, status 1
ReportErrors ==
    /\ pc = "report"
    /\ ERRS # <<>>
    /\ pc' = "failed"
    /\ exit_code' = 1
    /\ UNCHANGED << spec, caps_root, ERRS, dev_map, caps_devices, state_ids,
                    si, ti, gen_vars, call_vars >>

\* main, lines 317-318: OK is printed, status 0
ReportOK ==
    /\ pc = "report"
    /\ ERRS = <<>>
    /\ pc' = "ok"
    /\ exit_code' = 0
    /\ UNCHANGED << spec, caps_root, ERRS, dev_map, caps_devices, state_ids,
                    si, ti, gen_vars, call_vars >>

val_vars == << spec, caps_root, ERRS, dev_map, caps_devices, state_ids, si, ti,
               exit_code >>

\* gen_uml_from_spec.main, lines 155-163
GenStateNodes ==
    /\ pc = "ok"
    /\ state_xmi_ids' = make_state_xmi_ids(spec["states"])
    /\ state_xml' = make_state_nodes(spec["states"], state_xmi_ids')
    /\ pc' = "gen_transitions"
    /\ UNCHANGED << val_vars, trans_xml, stereo_xml, call_vars >>

\* gen_uml_from_spec.main, line 164; an uncaught IndexError ends the process
GenTransitions ==
    /\ pc = "gen_transitions"
    /\ \E r \in {make_transitions(spec["states"], spec["transitions"],
                                  state_xmi_ids)} :
           /\ trans_xml' = r.out
           /\ pc' = IF r.raised THEN "gen_raised" ELSE "gen_stereotypes"
    /\ UNCHANGED << val_vars, state_xmi_ids, state_xml, stereo_xml, call_vars >>

\* gen_uml_from_spec.main, lines 165-185: the blocks are made and the
\* filled template is written
GenStereotypes ==
    /\ pc = "gen_stereotypes"
    /\ stereo_xml' = make_stereotypes(spec["states"], spec["transitions"],
                                      state_xmi_ids)
    /\ pc' = "gen_done"
    /\ UNCHANGED << val_vars, state_xmi_ids, state_xml, trans_xml, call_vars >>

Next ==
    \/ CheckTopLevelKeys
    \/ ValidateDevices
    \/ CheckState
    \/ CheckTransition
    \/ ReportErrors
    \/ ReportOK
    \/ GenStateNodes
    \/ GenTransitions
    \/ GenStereotypes

Spec == Init /\ [][Next]_vars

(***************************************************************************)
(* validate_devices on its own, followed by one later check that resolves  *)
(* a device through the map it returned.                                   *)
(***************************************************************************)
d_switch1_motion  == [id |-> c_switch1, type |-> "motionSensor",
                      attributes |-> <<c_motion>>]
d_switch1_unknown == [id |-> c_switch1, type |-> "thermostat",
                      attributes |-> <<>>]
d_switch1_nokeys  == [id |-> c_switch1, type |-> "switch"]
d_switch_badattr  == [id |-> c_switch, type |-> "switch",
                      attributes |-> <<c_power, c_level>>]

DevicePool ==
    { d_switch1, d_switch1_motion, d_switch1_unknown, d_switch1_nokeys,
      d_switch_badattr, BaselineDevices[1] }

\* the atom the later check validates:  switch1.power == "on"
LaterAtom == AtomText(c_switch1, c_power, c_eq, c_on)

InitDev ==
    /\ spec \in { [devices |-> dl] : dl \in SeqsUpTo(DevicePool, MaxDevices) }
    /\ caps_root = Caps
    /\ pc = "dev_call"
    /\ ERRS = <<>>
    /\ dev_map = EmptyDict
    /\ caps_devices = EmptyDict
    /\ state_ids = {}
    /\ si = 0
    /\ ti = 0
    /\ exit_code = -1
    /\ NoGen
    /\ NoCall

\* dev_map, caps_devices = validate_devices(spec, caps_root)
DevCall ==
    /\ pc = "dev_call"
    /\ \E r \in {validate_devices(ERRS, spec, caps_root)} :
           /\ ERRS' = r.ERRS
           /\ dev_map' = r.dev_map
           /\ caps_devices' = r.caps_devices
    /\ pc' = "dev_done"
    /\ UNCHANGED << spec, caps_root, state_ids, si, ti, exit_code, gen_vars,
                    call_vars >>

\* validate_atom('switch1.power == "on"', dev_map, caps_devices, ops)
DevLaterCheck ==
    /\ pc = "dev_done"
    /\ ERRS' = validate_atom(ERRS, <<3, 1, 0>>, LaterAtom, dev_map,
                             caps_devices, main_ops(caps_root))
    /\ pc' = "dev_checked"
    /\ UNCHANGED << spec, caps_root, dev_map, caps_devices, state_ids, si, ti,
                    exit_code, gen_vars, call_vars >>

NextDev == DevCall \/ DevLaterCheck

SpecDev == InitDev /\ [][NextDev]_vars

(***************************************************************************)
(* validate_trigger on its own, on expressions written from at most        *)
(* MaxFrags pieces, under three connective sets of the schema.             *)
(***************************************************************************)
\* a.b == "x"
AtomAB == AtomText(<<"a">>, <<"b">>, c_eq, <<"x">>)

\* switch1.power == "off"
AtomOff == AtomText(c_switch1, c_power, c_eq, c_off)

FragPool == { AtomOff, AtomAB, c_and, c_or, c_xor, <<" ">> }

BoolOpsChoices == { <<c_and, c_or>>, <<c_and>>, <<c_and, c_or, c_xor>> }

RECURSIVE Concat(_)
\* the pieces written one after the other
Concat(fs) == IF fs = <<>> THEN <<>> ELSE Head(fs) \o Concat(Tail(fs))

InitTrig ==
    /\ frags \in SeqsUpTo(FragPool, MaxFrags)
    /\ expr = Concat(frags)
    /\ caps_root \in { [Caps EXCEPT !.bool_ops = b] : b \in BoolOpsChoices }
    /\ spec = [devices |-> <<d_switch1>>]
    /\ pc = "trig_call"
    /\ ERRS = <<>>
    /\ dev_map = (c_switch1 :> "switch")
    /\ caps_devices = Caps.devices
    /\ state_ids = {}
    /\ si = 0
    /\ ti = 0
    /\ exit_code = -1
    /\ NoGen
    /\ tokens = <<>>
    /\ checked = <<>>

\* validate_trigger(expr, dev_map, caps_devices, bool_ops, ops)
TrigCall ==
    /\ pc = "trig_call"
    /\ \E r \in {trigger_run(ERRS, <<3, 1, 0>>, expr, dev_map, caps_devices,
                             main_bool_ops(caps_root), main_ops(caps_root))} :
           /\ ERRS' = r.ERRS
           /\ tokens' = r.tokens
           /\ checked' = r.checked
    /\ pc' = "trig_done"
    /\ UNCHANGED << spec, caps_root, dev_map, caps_devices, state_ids, si, ti,
                    exit_code, gen_vars, expr, frags >>

NextTrig == TrigCall

SpecTrig == InitTrig /\ [][NextTrig]_vars

(***************************************************************************)
(* Reading the diagnostics.                                                *)
(***************************************************************************)
Kind(e) == e.text[1].v[1]

DiagsOf(E, kind) == {i \in DOMAIN E : Kind(E[i]) = kind}

Texts(E) == [i \in DOMAIN E |-> E[i].text]

Terminated == pc \in {"failed", "ok", "raised", "gen_transitions",
                      "gen_stereotypes", "gen_raised", "gen_done"}

IsSortedList(l) == \A i, j \in DOMAIN l : i < j => StrLess(l[i], l[j])

(***************************************************************************)
(* C1.  The validator runs to completion on every bundle: a violation is   *)
(* recorded as a diagnostic and checking continues; in particular no       *)
(* exception escapes the validation of a state invariant.                  *)
(* The formula is the claim as written; the model refutes it.              *)
(***************************************************************************)
C1_RunsToCompletion == pc # "raised"

(***************************************************************************)
(* C2.  As written: Scenario A (the bundle with switch1, the states Idle   *)
(* and On and one transition) validates with no diagnostic and status 0.   *)
(***************************************************************************)
C2_ScenarioA_Accepted ==
    (spec = ScenarioA /\ Terminated) => (ERRS = <<>> /\ exit_code = 0)

(***************************************************************************)
(* C2, amended.  Scenario A declares none of the three required device ids,*)
(* so its validation ends with exactly three diagnostics, "Required device *)
(* missing" for presenceSensor, motionSensor and switch in that order, and *)
(* with status 1.                                                          *)
(***************************************************************************)
C2_ScenarioA_RequiredMissing ==
    (spec = ScenarioA /\ Terminated) =>
        /\ pc = "failed"
        /\ exit_code = 1
        /\ Texts(ERRS) =
               << <<Lit("Required device missing: "), Str(c_presenceSensor)>>,
                  <<Lit("Required device missing: "), Str(c_motionSensor)>>,
                  <<Lit("Required device missing: "), Str(c_switch)>> >>

C2_Witness == spec = ScenarioA /\ pc = "failed" /\ Len(ERRS) = 3

(***************************************************************************)
(* C3.  Every "Invalid value" diagnostic, whether raised for a trigger     *)
(* atom or for a state invariant, carries the sorted list of the values    *)
(* the schema allows for the attribute it names.                           *)
(* The formula is the claim as written; the model refutes it.              *)
(***************************************************************************)
C3_InvalidValueListsAllowed ==
    \A i \in DiagsOf(ERRS, "Invalid value ") :
        LET dev     == ERRS[i].text[4].v
            attr    == ERRS[i].text[6].v
            allowed == ToSet(caps_devices[dev_map[dev]]["attributes"][attr])
        IN  \E p \in DOMAIN ERRS[i].text :
                /\ ERRS[i].text[p].t = "list"
                /\ ToSet(ERRS[i].text[p].v) = allowed
                /\ IsSortedList(ERRS[i].text[p].v)

(***************************************************************************)
(* Reading a trigger text through the fragments it was written from: the   *)
(* connectives the tokenizer knows, and the pieces of text between them.   *)
(***************************************************************************)
IsConnective(f) == f \in {c_and, c_or}

NonBlank(fs) == SelectSeq(fs, LAMBDA f : f # <<" ">>)

EndsWithConnective(fs) ==
    NonBlank(fs) # <<>> /\ IsConnective(NonBlank(fs)[Len(NonBlank(fs))])

RECURSIVE RawPieces(_, _)
RawPieces(fs, buf) ==
    IF fs = <<>> THEN <<buf>>
    ELSE IF IsConnective(Head(fs))
         THEN <<buf>> \o RawPieces(Tail(fs), <<>>)
         ELSE RawPieces(Tail(fs), buf \o Head(fs))

Pieces(fs) == [i \in DOMAIN RawPieces(fs, <<>>) |-> strip(RawPieces(fs, <<>>)[i])]

PiecesBefore(fs) == SubSeq(Pieces(fs), 1, Len(Pieces(fs)) - 1)

AdjacentPairs(fs) ==
    {i \in 1..(Len(NonBlank(fs)) - 1) :
        IsConnective(NonBlank(fs)[i]) /\ IsConnective(NonBlank(fs)[i + 1])}

(***************************************************************************)
(* C4.  For every trigger whose last non-whitespace token is a connective  *)
(* (&& or ||), validate_trigger records exactly one "Trigger expression    *)
(* ends with operator" diagnostic, and the atoms it checks are exactly the *)
(* texts standing before each connective: the empty tail after the final   *)
(* connective is never handed to the atom check.                           *)
(***************************************************************************)
C4_EndsWithOperator ==
    (pc = "trig_done" /\ EndsWithConnective(frags)) =>
        /\ Cardinality(DiagsOf(ERRS, "Trigger expression ends with operator")) = 1
        /\ checked = PiecesBefore(frags)

C4_Witness ==
    /\ pc = "trig_done"
    /\ frags = <<AtomOff, <<" ">>, c_and, <<" ">>>>
    /\ Len(ERRS) = 1
    /\ checked = <<AtomOff>>

(***************************************************************************)
(* C5.  For every trigger that starts with an atom and has two connectives *)
(* with only whitespace between them, the validator records one            *)
(* "Expected boolean op" diagnostic per such position, no "Bad trigger     *)
(* atom" diagnostic for an empty text, and every non-empty piece of text   *)
(* between connectives is still handed to the atom check.                  *)
(* The formula is the claim as written; the model refutes it.              *)
(***************************************************************************)
C5_AdjacentConnectives ==
    (/\ pc = "trig_done"
     /\ AdjacentPairs(frags) # {}
     /\ ~IsConnective(NonBlank(frags)[1])) =>
        /\ Cardinality(DiagsOf(ERRS, "Expected boolean op between atoms, got: "))
               = Cardinality(AdjacentPairs(frags))
        /\ \A i \in DiagsOf(ERRS, "Bad trigger atom: ") : ERRS[i].text[2].v # <<>>
        /\ \A p \in ToSet(Pieces(frags)) : p # <<>> => p \in ToSet(checked)

(***************************************************************************)
(* Reading the device declarations of a bundle.                            *)
(***************************************************************************)
Carries(d) == {"id", "type", "attributes"} \subseteq DOMAIN d

DeclaredWith(ds, id) == {k \in DOMAIN ds : Carries(ds[k]) /\ ds[k]["id"] = id}

KnownWith(ds, id) ==
    {k \in DeclaredWith(ds, id) : ds[k]["type"] \in DOMAIN caps_devices}

Last(K) == CHOOSE k \in K : \A j \in K : j <= k

DuplicateDiags(id) ==
    {i \in DiagsOf(ERRS, "Duplicate device id: ") : ERRS[i].text[2].v = id}

DeclaredIds(ds) == {ds[k]["id"] : k \in {j \in DOMAIN ds : Carries(ds[j])}}

DevChecked == pc \in {"dev_done", "dev_checked"}

(***************************************************************************)
(* C6.  As written: whenever two or more declarations carrying id, type    *)
(* and attributes share an id, the device check records exactly one        *)
(* duplicate-id diagnostic for that id, and the device map resolves the id *)
(* to the type of the last declaration with that id.                       *)
(***************************************************************************)
C6_DuplicateFlaggedOnce ==
    DevChecked =>
        \A id \in DeclaredIds(spec["devices"]) :
            Cardinality(DeclaredWith(spec["devices"], id)) >= 2 =>
                /\ Cardinality(DuplicateDiags(id)) = 1
                /\ id \in DOMAIN dev_map
                /\ dev_map[id] =
                       spec["devices"][Last(DeclaredWith(spec["devices"], id))]["type"]

(***************************************************************************)
(* C6, amended.  Only declarations whose type the schema knows take part:  *)
(* a declaration with an unknown type is skipped before the duplicate test,*)
(* neither flagged as a duplicate nor recorded.  Among the declarations of *)
(* one id with a known type, every one after the first draws one           *)
(* duplicate-id diagnostic, processing continues, the device map resolves  *)
(* the id to the type of the last of them, and a later atom check of       *)
(* switch1.power uses that type.                                           *)
(***************************************************************************)
C6_DuplicateKnownTypes ==
    DevChecked =>
        /\ \A id \in DeclaredIds(spec["devices"]) :
               LET K == KnownWith(spec["devices"], id)
               IN  IF K = {}
                   THEN id \notin DOMAIN dev_map /\ DuplicateDiags(id) = {}
                   ELSE /\ Cardinality(DuplicateDiags(id)) = Cardinality(K) - 1
                        /\ id \in DOMAIN dev_map
                        /\ dev_map[id] = spec["devices"][Last(K)]["type"]
        /\ pc = "dev_checked" =>
               LET later == SelectSeq(ERRS, LAMBDA e : e.at = <<3, 1, 0>>)
                   K     == KnownWith(spec["devices"], c_switch1)
               IN  IF K = {}
                   THEN Texts(later) =
                            << <<Lit("Unknown device in trigger: "), Str(c_switch1)>> >>
                   ELSE IF spec["devices"][Last(K)]["type"] = "switch"
                        THEN later = <<>>
                        ELSE Texts(later) =
                                 << <<Lit("Unknown attribute "), Str(c_switch1),
                                      Lit("."), Str(c_power)>> >>

C6_Witness ==
    /\ pc = "dev_checked"
    /\ spec["devices"] = <<d_switch1, d_switch1_motion, d_switch1_unknown>>
    /\ Cardinality(DuplicateDiags(c_switch1)) = 1
    /\ dev_map[c_switch1] = "motionSensor"

(***************************************************************************)
(* C7.  In the diagnostic sequence of one validation run the origins never *)
(* go backwards: device diagnostics (in device order) come before state    *)
(* diagnostics (in state order, each state's invariants in declared order),*)
(* which come before transition diagnostics (in transition order).         *)
(***************************************************************************)
AtLeq(a, b) ==
    \/ a[1] < b[1]
    \/ a[1] = b[1] /\ a[2] < b[2]
    \/ a[1] = b[1] /\ a[2] = b[2] /\ a[3] <= b[3]

C7_DiagnosticOrder ==
    \A i, j \in DOMAIN ERRS : i < j => AtLeq(ERRS[i].at, ERRS[j].at)

C7_Witness ==
    /\ pc = "failed"
    /\ \E i, j, k, l \in DOMAIN ERRS :
           /\ ERRS[i].at[1] = 1
           /\ ERRS[j].at[1] = 2 /\ ERRS[j].at[3] = 1
           /\ ERRS[k].at = <<2, ERRS[j].at[2], 2>>
           /\ ERRS[l].at[1] = 3

(***************************************************************************)
(* C8.  The tokenizer splits a trigger at the connectives of the schema's  *)
(* connective set S and nowhere else: a chain of valid atoms joined by     *)
(* members of S draws no diagnostic, and an && or || that is not in S is   *)
(* not made a token of its own.                                            *)
(* The formula is the claim as written; the model refutes it.              *)
(***************************************************************************)
ChainOver(fs, S) ==
    /\ Len(NonBlank(fs)) % 2 = 1
    /\ \A i \in DOMAIN NonBlank(fs) :
           IF i % 2 = 1 THEN NonBlank(fs)[i] = AtomOff
                        ELSE NonBlank(fs)[i] \in S

C8_SchemaConnectives ==
    pc = "trig_done" =>
        /\ ChainOver(frags, ToSet(main_bool_ops(caps_root))) => ERRS = <<>>
        /\ \A t \in ToSet(tokens) :
               IsConnective(t) => t \in ToSet(main_bool_ops(caps_root))

(***************************************************************************)
(* C9.  A trigger draws no diagnostic from validate_trigger only if it is  *)
(* a chain  atom ((&&|||) atom)*  of at least one valid atom; the empty    *)
(* and the all-whitespace trigger are not accepted.                        *)
(* The formula is the claim as written; the model refutes it.              *)
(***************************************************************************)
C9_AcceptedOnlyIfChain ==
    (pc = "trig_done" /\ ERRS = <<>>) => ChainOver(frags, {c_and, c_or})

(***************************************************************************)
(* C10.  For a bundle validated with no diagnostic, the generator gives    *)
(* state S the id s_S, the i-th transition the id t_i, the k-th state's    *)
(* invariant block the id stinv_k based on the k-th state's element, the   *)
(* i-th transition's trigger and action blocks the ids trig_i and act_i    *)
(* based on t_i, and no block is based on t_init; every block's base is    *)
(* the id of exactly one emitted state or transition element, and all      *)
(* emitted ids, init_1, final_1 and t_init included, are pairwise distinct.*)
(***************************************************************************)
Emitted == state_xml \o trans_xml

EmittedIds ==
    [i \in DOMAIN Emitted |-> Emitted[i].id]
        \o [i \in DOMAIN stereo_xml |-> stereo_xml[i].id]

C10_DeterministicIds ==
    /\ \A i, j \in DOMAIN EmittedIds : i # j => EmittedIds[i] # EmittedIds[j]
    /\ pc = "gen_done" =>
        LET states      == spec["states"]
            transitions == spec["transitions"]
            ns          == Len(states)
        IN  /\ ERRS = <<>>
            /\ [i \in DOMAIN state_xml |-> state_xml[i].id]
                   = <<"init_1">>
                       \o [k \in 1..ns |-> "s_" \o states[k]["id"]]
                       \o <<"final_1">>
            /\ [i \in DOMAIN trans_xml |-> trans_xml[i].id]
                   = <<"t_init">>
                       \o [i \in 1..Len(transitions) |-> "t_" \o ToString(i)]
            /\ Len(stereo_xml) = ns + 2 * Len(transitions)
            /\ \A k \in 1..ns :
                   /\ stereo_xml[k].id = "stinv_" \o ToString(k)
                   /\ stereo_xml[k].base = state_xml[k + 1].id
            /\ \A i \in 1..Len(transitions) :
                   /\ stereo_xml[ns + 2 * i - 1].id = "trig_" \o ToString(i)
                   /\ stereo_xml[ns + 2 * i].id = "act_" \o ToString(i)
                   /\ stereo_xml[ns + 2 * i - 1].base = trans_xml[i + 1].id
                   /\ stereo_xml[ns + 2 * i].base = trans_xml[i + 1].id
            /\ \A b \in DOMAIN stereo_xml :
                   /\ stereo_xml[b].base # "t_init"
                   /\ Cardinality({e \in DOMAIN Emitted :
                                      Emitted[e].id = stereo_xml[b].base}) = 1

C10_Witness ==
    /\ pc = "gen_done"
    /\ Len(spec["states"]) = 2
    /\ Len(spec["transitions"]) = 2
    /\ Len(stereo_xml) = 6
    /\ stereo_xml[6].base = "t_2"

(***************************************************************************)
(* C11.  Every bundle that validation accepts with no diagnostic is        *)
(* rendered: generation never raises, the bundle with an empty states      *)
(* sequence included, and once it has run it has emitted the transition    *)
(* t_init from init_1 to the element of the first declared state.          *)
(* The formula is the claim as written; the model refutes it.              *)
(***************************************************************************)
C11_AcceptedBundleRenders ==
    /\ pc # "gen_raised"
    /\ pc = "gen_done" =>
           trans_xml[1] = [id     |-> "t_init",
                           source |-> "init_1",
                           target |-> "s_" \o spec["states"][1]["id"]]

=============================================================================
